---- MODULE Spec2Model ----
(***************************************************************************)
(* A model of the TLV/BER codec of go-tcap (package tcap, file ie.go):     *)
(* the Tag bit layout, the flat short-form codec (MarshalBinary, MarshalTo,*)
(* ParseIE, ParseMultiIEs) and the recursive BER engine (ParseAsBER,       *)
(* ParseIERecursive, ParseRecursive).                                      *)
(*                                                                         *)
(* A Go slice is modelled with its capacity: a record [arr, len] where arr *)
(* holds the bytes of the backing array from the slice's first byte to the *)
(* end of its capacity and len is the slice's length.  A slice expression  *)
(* b[lo:hi] is legal up to the capacity, an index b[i] only below the      *)
(* length; an illegal one is a runtime panic, which the model records as   *)
(* pc = "panic".                                                           *)
(***************************************************************************)
EXTENDS Integers, Sequences, FiniteSets, TLC

VARIABLES
    op,     \* the exported operation that was called
    input,  \* its arguments
    stack,  \* the activations of ParseAsBER / ParseRecursive / ParseMultiIEs
    reg,    \* the value a callee has just returned to the activation on top
    wire,   \* the bytes MarshalBinary produced (round-trip harness)
    pc,     \* "run", "marshalled", "done" (value returned), "err", "panic"
    ret     \* the value returned to the caller of the operation

vars == <<op, input, stack, reg, wire, pc, ret>>

----------------------------------------------------------------------------
(* Bounds of the explored inputs.                                          *)

\* Tag inputs: class in 0..MaxCls, form in 0..MaxForm, code in 0..MaxCode
\* (one past the in-range values, so that truncation is exercised).
MaxCls == 4
MaxForm == 2
MaxCode == 32
\* Buffers built by concatenating at most MaxUnits fragments.
MaxUnits == 4
\* Constructed elements holding at most MaxKids primitive children.
MaxKids == 3
\* Short values of at most MaxValLen bytes.
MaxValLen == 2

----------------------------------------------------------------------------
(* Machine arithmetic.                                                     *)

RECURSIVE BitAnd(_, _)
BitAnd(x, y) ==
    IF x = 0 \/ y = 0 THEN 0
    ELSE (x % 2) * (y % 2) + 2 * BitAnd(x \div 2, y \div 2)

RECURSIVE BitOr(_, _)
BitOr(x, y) ==
    IF x = 0 THEN y
    ELSE IF y = 0 THEN x
    ELSE (IF (x % 2) + (y % 2) > 0 THEN 1 ELSE 0) + 2 * BitOr(x \div 2, y \div 2)

Shl(x, n) == x * (2 ^ n)

Shr(x, n) == x \div (2 ^ n)

\* Conversion to uint8.
U8(x) == x % 256

\* A left shift of a uint8 operand: the result is a uint8, so every bit
\* shifted to position 8 or above is lost.
Shl8(x, n) == IF n >= 8 THEN 0 ELSE U8(Shl(x, n))

----------------------------------------------------------------------------
(* Tag.                                                                    *)

\* The form bit shifted to bit 4 instead of bit 5.
NewTagFormBit4(cls, form, code) == U8(BitOr(BitOr(Shl(cls, 6), Shl(form, 4)), code))

NewTag(cls, form, code) == U8(BitOr(BitOr(Shl(cls, 6), Shl(form, 5)), code))

Class(t) == BitAnd(Shr(t, 6), 3)

Form(t) == BitAnd(Shr(t, 5), 1)

Code(t) == BitAnd(t, 31)

----------------------------------------------------------------------------
(* Go slices of bytes.                                                     *)

MkSlice(bytes) == [arr |-> bytes, len |-> Len(bytes)]

EmptySlice == MkSlice(<<>>)

Cap(s) == Len(s.arr)

\* b[i], legal for 0 <= i < len(b).
At(s, i) == s.arr[i + 1]

\* The bytes a slice shows: b[0 .. len(b)-1].
Bytes(s) == SubSeq(s.arr, 1, s.len)

\* b[lo:hi] panics unless 0 <= lo <= hi <= cap(b).
SliceOK(s, lo, hi) == 0 <= lo /\ lo <= hi /\ hi <= Cap(s)

Slice(s, lo, hi) == [arr |-> SubSeq(s.arr, lo + 1, Cap(s)), len |-> hi - lo]

\* b[lo:] is b[lo:len(b)].
SliceFromOK(s, lo) == SliceOK(s, lo, s.len)

SliceFrom(s, lo) == Slice(s, lo, s.len)

----------------------------------------------------------------------------
(* IE.                                                                     *)

\* &IE{}
ZeroIE == [Tag |-> 0, Length |-> 0, Value |-> EmptySlice, IE |-> <<>>]

MarshalLen(i) ==
    IF i.Value.len > 127 THEN 3 + i.Value.len ELSE 2 + i.Value.len

NewIE(tag, value) ==
    [Tag |-> tag, Length |-> U8(value.len), Value |-> value, IE |-> <<>>]

RECURSIVE SumMarshalLen(_)
SumMarshalLen(ies) ==
    IF ies = <<>> THEN 0
    ELSE MarshalLen(Head(ies)) + SumMarshalLen(Tail(ies))

----------------------------------------------------------------------------
(* ParseRecursive, up to the point where it descends into the value.       *)

\* The loop "for k := lenBytes; k >= 1; k--" accumulating i.Length (a uint8)
\* from the length octets b[2] .. b[1+lenBytes]; an octet beyond the buffer
\* is skipped.
RECURSIVE LengthOctets(_, _, _, _)
LengthOctets(b, lenBytes, k, acc) ==
    IF k < 1 THEN acc
    ELSE LengthOctets(b, lenBytes, k - 1,
            IF 1 + k >= b.len THEN acc
            ELSE U8(acc + Shl8(At(b, 1 + k), 8 * (lenBytes - k))))

\* Tag, Length and Value as ParseRecursive sets them: [st, i] with st
\* "eof" (io.ErrUnexpectedEOF), "panic" (slice bounds out of range) or "ok".
ParseHeader(b) ==
    IF b.len < 2 THEN [st |-> "eof", i |-> ZeroIE]
    ELSE IF BitAnd(At(b, 1), 128) = 128
    THEN LET lenBytes == BitAnd(At(b, 1), 127)
             length   == LengthOctets(b, lenBytes, lenBytes, 0)
             lo       == 2 + lenBytes
         IN  IF SliceOK(b, lo, lo + length)
             THEN [st |-> "ok",
                   i  |-> [Tag |-> At(b, 0), Length |-> length,
                           Value |-> Slice(b, lo, lo + length), IE |-> <<>>]]
             ELSE [st |-> "panic", i |-> ZeroIE]
    ELSE LET length == At(b, 1)
         IN  IF SliceOK(b, 2, 2 + length)
             THEN [st |-> "ok",
                   i  |-> [Tag |-> At(b, 0), Length |-> length,
                           Value |-> Slice(b, 2, 2 + length), IE |-> <<>>]]
             ELSE [st |-> "panic", i |-> ZeroIE]

\* The early return taken also by a node that ends exactly at the end of
\* the buffer (>= for >).
ReturnsEarlyAtEnd(i, b) == i.Length + 2 >= b.len

\* "if int(i.Length)+2 > len(b) { return nil }": the node is returned as it
\* is, without looking at its form.
ReturnsEarly(i, b) == i.Length + 2 > b.len


\* The number of bytes ParseAsBER steps over after decoding node i.
Advance(i) ==
    IF Len(i.IE) = 0 THEN MarshalLen(i)
    ELSE IF MarshalLen(i.IE[1]) < MarshalLen(i) - 2
         THEN 2 + SumMarshalLen(i.IE)
         ELSE MarshalLen(i)

----------------------------------------------------------------------------
(* Activations.  kind "loop": ParseAsBER at the top of its for loop, with  *)
(* the remaining buffer b and the nodes ies collected so far.  kind "node":*)
(* ParseRecursive waiting for ParseAsBER(i.Value).  kind "call":           *)
(* ParseIERecursive called by the user on b.  kind "multi": ParseMultiIEs  *)
(* at the top of its loop.                                                 *)

Frame(kind, b, ies, i) == [kind |-> kind, b |-> b, ies |-> ies, i |-> i]

NoReg == [kind |-> "none", i |-> ZeroIE, ies |-> <<>>]

NodeReg(i) == [kind |-> "node", i |-> i, ies |-> <<>>]

IEsReg(ies) == [kind |-> "ies", i |-> ZeroIE, ies |-> ies]

ErrReg == [kind |-> "err", i |-> ZeroIE, ies |-> <<>>]

Top == stack[Len(stack)]

Pop == SubSeq(stack, 1, Len(stack) - 1)

SetTop(f) == [stack EXCEPT ![Len(stack)] = f]

Running == pc = "run" /\ stack # <<>>

\* ParseAsBER: "if len(b) < 2 { break }" and "return ies, nil".
ParseAsBER_Break ==
    /\ Running
    /\ Top.kind = "loop"
    /\ reg.kind = "none"
    /\ Top.b.len < 2
    /\ stack' = Pop
    /\ reg' = IEsReg(Top.ies)
    /\ UNCHANGED <<op, input, wire, pc, ret>>

\* ParseIERecursive(b) / i.ParseRecursive(b), called from ParseAsBER's loop
\* or by the user: the header, the early return and the descent.
ParseRecursive_Enter ==
    /\ Running
    /\ reg.kind = "none"
    /\ Top.kind \in {"loop", "call"}
    /\ Top.kind = "loop" => Top.b.len >= 2
    /\ LET h    == ParseHeader(Top.b)
           base == IF Top.kind = "call" THEN Pop ELSE stack
       IN  IF h.st = "panic"
           THEN /\ pc' = "panic"
                /\ UNCHANGED <<stack, reg>>
           ELSE IF h.st = "eof"
           THEN /\ stack' = base
                /\ reg' = ErrReg
                /\ pc' = pc
           ELSE IF ReturnsEarly(h.i, Top.b) \/ Form(h.i.Tag) # 1
           THEN /\ stack' = base
                /\ reg' = NodeReg(h.i)
                /\ pc' = pc
           ELSE /\ stack' = base \o <<Frame("node", Top.b, <<>>, h.i),
                                      Frame("loop", h.i.Value, <<>>, ZeroIE)>>
                /\ reg' = NoReg
                /\ pc' = pc
    /\ UNCHANGED <<op, input, wire, ret>>

\* ParseRecursive after ParseAsBER(i.Value) returned: an error is swallowed,
\* otherwise "i.IE = append(i.IE, x...)"; then "return nil".
ParseRecursive_Resume ==
    /\ Running
    /\ Top.kind = "node"
    /\ reg.kind \in {"ies", "err"}
    /\ stack' = Pop
    /\ reg' = IF reg.kind = "err" THEN NodeReg(Top.i)
              ELSE NodeReg([Top.i EXCEPT !.IE = Top.i.IE \o reg.ies])
    /\ UNCHANGED <<op, input, wire, pc, ret>>

\* ParseAsBER after ParseIERecursive returned: "return nil, err", or append
\* the node and step over it ("b = b[l:]" / "b = b[i.MarshalLen():]").
ParseAsBER_Advance ==
    /\ Running
    /\ Top.kind = "loop"
    /\ reg.kind \in {"node", "err"}
    /\ IF reg.kind = "err"
       THEN /\ stack' = Pop
            /\ reg' = ErrReg
            /\ pc' = pc
       ELSE IF SliceFromOK(Top.b, Advance(reg.i))
       THEN /\ stack' = SetTop(Frame("loop", SliceFrom(Top.b, Advance(reg.i)),
                                      Append(Top.ies, reg.i), ZeroIE))
            /\ reg' = NoReg
            /\ pc' = pc
       ELSE /\ pc' = "panic"
            /\ UNCHANGED <<stack, reg>>
    /\ UNCHANGED <<op, input, wire, ret>>

\* The outermost activation returns to the caller of the operation.
Return ==
    /\ pc = "run"
    /\ stack = <<>>
    /\ reg.kind # "none"
    /\ pc' = IF reg.kind = "err" THEN "err" ELSE "done"
    /\ ret' = reg
    /\ reg' = NoReg
    /\ UNCHANGED <<op, input, stack, wire>>

----------------------------------------------------------------------------
(* The flat codec.                                                         *)

\* i.UnmarshalBinary(b): [st, i] with st "eof" or "ok".
UnmarshalBinary(b) ==
    IF b.len < 3 THEN [st |-> "eof", i |-> ZeroIE]
    ELSE IF b.len < 2 + At(b, 1) THEN [st |-> "eof", i |-> ZeroIE]
    ELSE [st |-> "ok",
          i  |-> [Tag |-> At(b, 0), Length |-> At(b, 1),
                  Value |-> Slice(b, 2, 2 + At(b, 1)), IE |-> <<>>]]

ParseIE(b) == UnmarshalBinary(b)

\* copy(dst, src) on the backing array of b, dst being b[lo:hi]: the first
\* min(len(dst), len(src)) bytes of src are written from offset lo on.
Copy(b, lo, hi, src) ==
    LET n == IF hi - lo < src.len THEN hi - lo ELSE src.len
    IN  [b EXCEPT !.arr = [k \in 1..Cap(b) |->
            IF lo < k /\ k <= lo + n THEN src.arr[k - lo] ELSE b.arr[k]]]

\* i.MarshalTo(b): [st, b] with st "eof", "panic" or "ok" and b after the
\* writes.
MarshalTo(i, b) ==
    IF b.len < 2 THEN [st |-> "eof", b |-> b]
    ELSE LET b2 == [b EXCEPT !.arr[1] = U8(i.Tag), !.arr[2] = i.Length]
         IN  IF SliceOK(b2, 2, MarshalLen(i))
             THEN [st |-> "ok", b |-> Copy(b2, 2, MarshalLen(i), i.Value)]
             ELSE [st |-> "panic", b |-> b2]

\* make([]byte, n)
MakeBytes(n) == MkSlice([k \in 1..n |-> 0])

MarshalBinary(i) == MarshalTo(i, MakeBytes(MarshalLen(i)))

\* i.MarshalBinary() called by the user.
DoMarshalBinary ==
    /\ pc = "run"
    /\ op = "MarshalBinary"
    /\ LET r == MarshalBinary(input.i)
       IN  /\ pc' = IF r.st = "ok" THEN "marshalled"
                    ELSE IF r.st = "eof" THEN "err" ELSE "panic"
           /\ wire' = r.b
    /\ UNCHANGED <<op, input, stack, reg, ret>>

\* ParseIE on the bytes MarshalBinary returned.
DoParseIE ==
    /\ pc = "marshalled"
    /\ LET r == ParseIE(wire)
       IN  /\ pc' = IF r.st = "ok" THEN "done" ELSE "err"
           /\ ret' = IF r.st = "ok" THEN NodeReg(r.i) ELSE ErrReg
    /\ UNCHANGED <<op, input, stack, reg, wire>>

\* i.MarshalTo(b) called by the user; wire is b after the call.
DoMarshalTo ==
    /\ pc = "run"
    /\ op = "MarshalTo"
    /\ LET r == MarshalTo(input.i, input.b)
       IN  /\ pc' = IF r.st = "ok" THEN "done"
                    ELSE IF r.st = "eof" THEN "err" ELSE "panic"
           /\ wire' = r.b
    /\ UNCHANGED <<op, input, stack, reg, ret>>

\* ParseMultiIEs: "if len(b) == 0 { break }" and "return ies, nil".
ParseMultiIEs_Break ==
    /\ Running
    /\ Top.kind = "multi"
    /\ Top.b.len = 0
    /\ stack' = Pop
    /\ reg' = IEsReg(Top.ies)
    /\ UNCHANGED <<op, input, wire, pc, ret>>

\* ParseMultiIEs: one iteration of the loop on a non-empty buffer.
ParseMultiIEs_Iter ==
    /\ Running
    /\ Top.kind = "multi"
    /\ Top.b.len # 0
    /\ LET r == ParseIE(Top.b)
       IN  IF r.st # "ok"
           THEN /\ stack' = Pop
                /\ reg' = ErrReg
                /\ pc' = pc
           ELSE IF SliceFromOK(Top.b, MarshalLen(r.i))
           THEN /\ stack' = SetTop(Frame("multi", SliceFrom(Top.b, MarshalLen(r.i)),
                                         Append(Top.ies, r.i), ZeroIE))
                /\ reg' = NoReg
                /\ pc' = pc
           ELSE /\ pc' = "panic"
                /\ UNCHANGED <<stack, reg>>
    /\ UNCHANGED <<op, input, wire, ret>>

\* NewTag(cls, form, code) called by the user.
DoNewTag ==
    /\ pc = "run"
    /\ op = "NewTag"
    /\ ret' = NewTag(input.cls, input.form, input.code)
    /\ pc' = "done"
    /\ UNCHANGED <<op, input, stack, reg, wire>>

----------------------------------------------------------------------------
(* The inputs explored.                                                    *)

RECURSIVE Flatten(_)
Flatten(ss) == IF ss = <<>> THEN <<>> ELSE Head(ss) \o Flatten(Tail(ss))

SeqsUpTo(S, n) == UNION {[1..k -> S] : k \in 0..n}

\* n bytes seed+1, seed+2, ...
ValueOf(n, seed) == [k \in 1..n |-> U8(seed + k)]

\* Fragments of TLV streams: headers (short form, long form, constructed),
\* whole elements and a filler byte.
Units ==
    { <<36, 6>>, <<36, 3>>, <<36, 2>>, <<4, 0>>, <<4, 5>>, <<4, 129, 1>>, <<0>> }

\* Buffers made of fragments; the last fragment may lie beyond the length,
\* inside the capacity.
UnitBuffers ==
    { MkSlice(Flatten(us)) : us \in SeqsUpTo(Units, MaxUnits) } \cup
    { [arr |-> Flatten(us), len |-> Len(Flatten(us)) - Len(us[Len(us)])] :
        us \in SeqsUpTo(Units, MaxUnits) \ {<<>>} }

\* Short-form encoding of one element.
TLV(tag, value) == <<tag, Len(value)>> \o value

PrimTags == {4, 129}

ConsTags == {36}

KidBytes == <<170, 187, 204, 221, 238>>

KidValues == {SubSeq(KidBytes, 1, n) : n \in 0..MaxValLen} \cup {<<204>>}

Kids == {TLV(t, v) : t \in PrimTags, v \in KidValues}

\* One constructed short-form element whose value is the concatenation of
\* at most MaxKids primitive short-form elements; capacity = length.
KidBuffers ==
    { MkSlice(TLV(t, Flatten(ks))) : t \in ConsTags, ks \in SeqsUpTo(Kids, MaxKids) }

\* Tag, length octets, n value bytes, then possibly a sibling; the length
\* is the whole array or only the header and the first bytes of the value.
LongHeaders == { <<100>>, <<129, 128>>, <<129, 5>>, <<130, 1, 0>>, <<130, 0, 5>> }

LongBuffers ==
    { [arr |-> <<t>> \o h \o [k \in 1..n |-> 0] \o tail,
       len |-> IF whole THEN 1 + Len(h) + n + Len(tail) ELSE 1 + Len(h) + 10] :
        t \in {4, 36}, h \in LongHeaders, n \in {10, 100, 128, 256},
        tail \in {<<>>, <<4, 0>>}, whole \in BOOLEAN }

\* Constructed elements whose value has the largest short-form length, 127.
BoundaryBuffers ==
    { MkSlice(TLV(36, TLV(4, ValueOf(125, 0)))),
      MkSlice(TLV(36, TLV(4, ValueOf(60, 0)) \o TLV(129, ValueOf(63, 7)))) }

BERInputs == UnitBuffers \cup KidBuffers \cup LongBuffers \cup BoundaryBuffers

\* Values handed to NewIE.
FlatValues ==
    {ValueOf(n, s) : n \in (0..MaxValLen) \cup {127, 128, 255, 256}, s \in {35, 169}}

FlatIEs == {NewIE(t, MkSlice(v)) : t \in PrimTags \cup ConsTags \cup {161}, v \in FlatValues}

\* Destinations of MarshalTo: every length from 0 to one more than needed,
\* with the capacity equal to the length or one more than needed.
MarshalToInputs ==
    { [i |-> i, b |-> [arr |-> [k \in 1..c |-> 0], len |-> l]] :
        i \in {x \in FlatIEs : x.Value.len <= 128},
        l \in 0..(MaxValLen + 3), c \in 0..(MaxValLen + 4) } 

----------------------------------------------------------------------------
(* Specifications.                                                         *)

Start(o, in, st) ==
    /\ op = o
    /\ input = in
    /\ stack = st
    /\ reg = NoReg
    /\ wire = EmptySlice
    /\ pc = "run"
    /\ ret = NoReg

InitTag ==
    \E cls \in 0..MaxCls, form \in 0..MaxForm, code \in 0..MaxCode :
        Start("NewTag", [cls |-> cls, form |-> form, code |-> code], <<>>)

InitFlat ==
    \/ \E i \in FlatIEs : Start("MarshalBinary", [i |-> i], <<>>)
    \/ \E a \in MarshalToInputs : a.b.len <= Cap(a.b) /\ Start("MarshalTo", a, <<>>)
    \/ \E b \in BERInputs :
           Start("ParseMultiIEs", b, <<Frame("multi", b, <<>>, ZeroIE)>>)

InitBER ==
    \/ \E b \in BERInputs :
           Start("ParseAsBER", b, <<Frame("loop", b, <<>>, ZeroIE)>>)
    \/ \E b \in BERInputs :
           Start("ParseIERecursive", b, <<Frame("call", b, <<>>, ZeroIE)>>)

Init == InitTag \/ InitFlat \/ InitBER

NextTag == DoNewTag

NextFlat ==
    \/ DoMarshalBinary
    \/ DoParseIE
    \/ DoMarshalTo
    \/ ParseMultiIEs_Break
    \/ ParseMultiIEs_Iter
    \/ Return

NextBER ==
    \/ ParseAsBER_Break
    \/ ParseRecursive_Enter
    \/ ParseRecursive_Resume
    \/ ParseAsBER_Advance
    \/ Return

Next == NextTag \/ NextFlat \/ NextBER

SpecTag == InitTag /\ [][NextTag]_vars

SpecFlat == InitFlat /\ [][NextFlat]_vars

SpecBER == InitBER /\ [][NextBER]_vars

Spec == Init /\ [][Next]_vars

----------------------------------------------------------------------------
(* What the claims speak of, stated on plain byte sequences.               *)

Stopped == pc \in {"done", "err", "panic"}

\* The big-endian integer formed by the octets s[1] .. s[Len(s)].
RECURSIVE BigEndian(_)
BigEndian(s) ==
    IF s = <<>> THEN 0 ELSE 256 * BigEndian(SubSeq(s, 1, Len(s) - 1)) + s[Len(s)]

LongForm(s) == Len(s) >= 2 /\ s[2] >= 128

\* The number of length octets that follow byte 1.
OctetCount(s) == IF LongForm(s) THEN s[2] - 128 ELSE 0

HeaderSize(s) == 2 + OctetCount(s)

\* A header all of whose octets are present (long form: at least one).
ValidHeader(s) ==
    /\ Len(s) >= 2
    /\ LongForm(s) => OctetCount(s) >= 1 /\ Len(s) >= HeaderSize(s)

\* The value length the header declares.
DeclaredLength(s) ==
    IF LongForm(s) THEN BigEndian(SubSeq(s, 3, HeaderSize(s))) ELSE s[2]

\* s is a concatenation of primitive short-form TLVs.
RECURSIVE IsPrimTLVs(_)
IsPrimTLVs(s) ==
    \/ s = <<>>
    \/ /\ Len(s) >= 2
       /\ s[1] \div 32 % 2 = 0
       /\ s[2] <= 127
       /\ Len(s) >= 2 + s[2]
       /\ IsPrimTLVs(SubSeq(s, 3 + s[2], Len(s)))

\* The TLVs of such a concatenation, in order.
RECURSIVE PrimTLVs(_)
PrimTLVs(s) ==
    IF s = <<>> THEN <<>>
    ELSE <<[Tag |-> s[1], Length |-> s[2], Value |-> SubSeq(s, 3, 2 + s[2])]>>
         \o PrimTLVs(SubSeq(s, 3 + s[2], Len(s)))

\* s is one constructed short-form TLV whose value is exactly a
\* concatenation of primitive short-form TLVs.
IsConstructedOfPrims(s) ==
    /\ Len(s) >= 2
    /\ s[1] \div 32 % 2 = 1
    /\ s[2] <= 127
    /\ Len(s) = 2 + s[2]
    /\ IsPrimTLVs(SubSeq(s, 3, Len(s)))

\* Tag, Length and value bytes of decoded nodes.
Plain(ies) ==
    [k \in 1..Len(ies) |->
        [Tag |-> ies[k].Tag, Length |-> ies[k].Length, Value |-> Bytes(ies[k].Value)]]

\* ParseAsBER's loop holds a freshly decoded node and is about to step
\* over it.
AboutToAdvance == pc = "run" /\ stack # <<>> /\ Top.kind = "loop" /\ reg.kind = "node"

TopLen(st) == st[Len(st)].b.len

----------------------------------------------------------------------------
(* Claims.                                                                 *)

\* C1: short-form round trip.  For every tag and every value of 0 to 127
\* bytes, the empty value included, MarshalBinary of NewIE(tag, value)
\* followed by ParseIE succeeds and yields the same tag, Length = len(value)
\* and the same value bytes.
C1_RoundTrip ==
    (op = "MarshalBinary" /\ input.i.Value.len <= 127 /\ Stopped) =>
        /\ pc = "done"
        /\ ret.i.Tag = input.i.Tag
        /\ ret.i.Length = input.i.Value.len
        /\ Bytes(ret.i.Value) = Bytes(input.i.Value)

\* C2: no operation aborts.  ParseMultiIEs and ParseAsBER on a buffer whose
\* capacity equals its length, and MarshalTo on any IE and destination,
\* never reach a runtime panic.
C2_NoAbort ==
    (\/ op \in {"ParseMultiIEs", "ParseAsBER"} /\ Cap(input) = input.len
     \/ op = "MarshalTo") => pc # "panic"

\* C3: truncation tolerance.  When the buffer has at least 2 bytes and its
\* header declares more value bytes than the n that follow the header,
\* ParseIERecursive returns a node, without error, whose Value is exactly
\* those n bytes and which has no children.
C3_TruncationTolerance ==
    (/\ op = "ParseIERecursive"
     /\ ValidHeader(Bytes(input))
     /\ DeclaredLength(Bytes(input)) > input.len - HeaderSize(Bytes(input))
     /\ Stopped) =>
        /\ pc = "done"
        /\ Bytes(ret.i.Value) =
               SubSeq(Bytes(input), HeaderSize(Bytes(input)) + 1, input.len)
        /\ ret.i.IE = <<>>

\* C4: long-form length decoding.  When byte 1 has its top bit set, its low
\* 7 bits give k and all k length octets are present, the Length that
\* ParseRecursive decodes is the big-endian integer of those octets
\* (octets 01 00 give 256) and the value starts at offset 2 + k.
C4_LongFormLength ==
    (/\ op = "ParseIERecursive"
     /\ LongForm(Bytes(input))
     /\ ValidHeader(Bytes(input))
     /\ pc = "done") =>
        /\ ret.i.Length = DeclaredLength(Bytes(input))
        /\ ret.i.Value.arr = SubSeq(input.arr, HeaderSize(Bytes(input)) + 1, Cap(input))

\* C5: constructed recursion.  On a buffer that is one constructed
\* short-form TLV whose value is exactly the concatenation of N >= 0
\* primitive short-form TLVs, ParseAsBER fails in no way and returns exactly
\* one node, whose children are exactly those N TLVs in order (same tag,
\* length and value), none of them with children of its own.
C5_ConstructedRecursion ==
    (op = "ParseAsBER" /\ IsConstructedOfPrims(Bytes(input))) =>
        /\ pc \notin {"err", "panic"}
        /\ pc = "done" =>
            /\ Len(ret.ies) = 1
            /\ Plain(ret.ies) = <<[Tag |-> input.arr[1], Length |-> input.arr[2],
                                   Value |-> SubSeq(Bytes(input), 3, input.len)]>>
            /\ Plain(ret.ies[1].IE) = PrimTLVs(SubSeq(Bytes(input), 3, input.len))
            /\ \A k \in 1..Len(ret.ies[1].IE) : ret.ies[1].IE[k].IE = <<>>

\* C5 witness.  The claim's example: value 04 02 AA BB 04 01 CC gives two
\* children.
C5_Witness ==
    /\ op = "ParseAsBER"
    /\ pc = "done"
    /\ Bytes(input) = <<36, 7, 4, 2, 170, 187, 4, 1, 204>>
    /\ Len(ret.ies) = 1
    /\ Len(ret.ies[1].IE) = 2

\* C6: encoding into a short destination.  MarshalTo returns an error, and
\* does not abort, whenever the destination is shorter than MarshalLen(ie);
\* it succeeds only on a destination of at least MarshalLen(ie) bytes.
C6_ShortDestination ==
    (op = "MarshalTo" /\ Stopped) =>
        /\ input.b.len < MarshalLen(input.i) => pc = "err"
        /\ pc = "done" => input.b.len >= MarshalLen(input.i)

\* C7: tag bit-packing law.  For class in 0..3, form in 0..1 and code in
\* 0..31, t = NewTag(class, form, code) has Class() = class, Form() = form,
\* Code() = code, and t = 64*class + 32*form + code fits in 8 bits.
C7_TagPacking ==
    (/\ op = "NewTag"
     /\ pc = "done"
     /\ input.cls \in 0..3 /\ input.form \in 0..1 /\ input.code \in 0..31) =>
        /\ Class(ret) = input.cls
        /\ Form(ret) = input.form
        /\ Code(ret) = input.code
        /\ ret = 64 * input.cls + 32 * input.form + input.code
        /\ ret \in 0..255

\* C7 witness.  NewTag(Private, Constructor, 31) = 0xff has been computed.
C7_Witness ==
    /\ op = "NewTag"
    /\ pc = "done"
    /\ input = [cls |-> 3, form |-> 1, code |-> 31]
    /\ ret = 255

\* C8: length reconciliation.  When ParseAsBER steps over a node that has
\* children, it advances by 2 + the sum of the children's MarshalLen if that
\* sum differs from node.MarshalLen() - 2 and by node.MarshalLen() if it is
\* equal; either way the advance does not exceed the remaining buffer.
C8_Reconciliation ==
    [][(AboutToAdvance /\ Len(reg.i.IE) > 0) =>
         LET adv == IF SumMarshalLen(reg.i.IE) # MarshalLen(reg.i) - 2
                    THEN 2 + SumMarshalLen(reg.i.IE)
                    ELSE MarshalLen(reg.i)
         IN  /\ adv <= Top.b.len
             /\ pc' = "run"
             /\ TopLen(stack') = Top.b.len - adv]_vars

\* C9: sibling alignment for childless nodes.  When ParseAsBER steps over a
\* node without children that was decoded from a valid short-form or
\* long-form header and lies wholly inside the buffer, it advances by the
\* bytes the node occupies on the wire: header (2, or 2 + k) plus value.
C9_SiblingAlignment ==
    [][(/\ AboutToAdvance
        /\ Len(reg.i.IE) = 0
        /\ ValidHeader(Bytes(Top.b))
        /\ HeaderSize(Bytes(Top.b)) + DeclaredLength(Bytes(Top.b)) <= Top.b.len) =>
         /\ pc' = "run"
         /\ TopLen(stack') =
                Top.b.len - (HeaderSize(Bytes(Top.b)) + DeclaredLength(Bytes(Top.b)))]_vars

\* C10: termination of the recursive decoder.  Every iteration of
\* ParseAsBER's loop shortens the remaining buffer by at least 2 bytes,
\* every recursive call is made on a value strictly shorter than the buffer
\* it was cut from, and the loop is left exactly when fewer than 2 bytes
\* remain.
C10_Termination ==
    [][(pc = "run" /\ stack # <<>> /\ Top.kind = "loop") =>
         /\ reg.kind = "node" => pc' = "run" /\ TopLen(stack') <= Top.b.len - 2
         /\ Len(stack') > Len(stack) => TopLen(stack') < Top.b.len
         /\ (pc' # "run" \/ Len(stack') < Len(stack)) => Top.b.len < 2
         /\ (reg.kind = "none" /\ Top.b.len < 2) => Len(stack') < Len(stack)]_vars

====
